---- MODULE Spec2Model ----
(***************************************************************************)
(* A model of the weft terminal e-book reader (src/reader.py): the Reader  *)
(* object's navigation state, the pagination that display_current derives *)
(* from the current section and the console size, the main loop of read()  *)
(* that alternates display_current with one key command, the features that *)
(* call the AI and audio collaborators, and the extraction of the sections *)
(* from the items of the book when the Reader is constructed.              *)
(*                                                                         *)
(* Text is a sequence of one-character strings, so that str.split,         *)
(* str.join, len and str.count are computed as Python computes them.       *)
(***************************************************************************)
EXTENDS Integers, Sequences, FiniteSets, TLC

(***************************************************************************)
(* Bounds of the model.                                                    *)
(***************************************************************************)
\* longest section content, in characters, of the pagination specification
MaxLen == 5
\* most sections of a book
MaxSections == 2
\* most paragraphs of a section of a book of the reader specifications
MaxParas == 2
\* most lines of the content of an item of the extraction specification
MaxLines == 6
\* most items of a book of the extraction specification
MaxItems == 3

(***************************************************************************)
(* Program constants.                                                      *)
(***************************************************************************)
\* console.width - 10, reader.py:93
Margin == 10
\* ... + 2, reader.py:93
Overhead == 2
\* console.height - 10, reader.py:83
HeightMargin == 10
\* lines[:5], reader.py:67
ScanLimit == 5

NL == "\n"
Chars == {"a", NL}

\* the console sizes the terminal may have: widths below, at and above the
\* margin, heights around the margin
Widths == {Margin - 1, Margin, Margin + 1, Margin + 2}
Heights == {HeightMargin + 1, HeightMargin + 3, HeightMargin + 6}

\* '[No content]', reader.py:114
NoContent == <<"[", "N", "o", " ", "c", "o", "n", "t", "e", "n", "t", "]">>

(***************************************************************************)
(* Python's string operations.                                             *)
(***************************************************************************)
\* a // b of Python for a >= 0 and b # 0: the floor of the quotient
FloorDiv(a, b) == IF b > 0 THEN a \div b ELSE -((a + (-b) - 1) \div (-b))

\* para.count('\n')
RECURSIVE count(_, _)
count(s, c) ==
    IF s = <<>> THEN 0
    ELSE (IF Head(s) = c THEN 1 ELSE 0) + count(Tail(s), c)

\* s.split('\n\n') from position i on, cur being the piece read so far: the
\* separators are found left to right and do not overlap
RECURSIVE splitFrom(_, _, _)
splitFrom(s, i, cur) ==
    IF i > Len(s) THEN <<cur>>
    ELSE IF i < Len(s) /\ s[i] = NL /\ s[i + 1] = NL
         THEN <<cur>> \o splitFrom(s, i + 2, <<>>)
         ELSE splitFrom(s, i + 1, Append(cur, s[i]))

split(s) == splitFrom(s, 1, <<>>)

\* '\n\n'.join(parts)
RECURSIVE join(_)
join(parts) ==
    IF parts = <<>> THEN <<>>
    ELSE IF Len(parts) = 1 THEN parts[1]
    ELSE parts[1] \o <<NL, NL>> \o join(Tail(parts))

(***************************************************************************)
(* Pagination, reader.py:83-114.                                           *)
(***************************************************************************)
\* the line budget of a page
console_height(h) == h - HeightMargin

\* the division of line 93 raises ZeroDivisionError
DivisionByZero(w) == w - Margin = 0

\* the estimated lines of a paragraph
para_lines(para, w) == FloorDiv(Len(para), w - Margin) + count(para, NL) + Overhead

\* lines 108-114, after the loop: the last page, and the placeholder
Flush(pgs, page) ==
    LET flushed == IF page # <<>> THEN Append(pgs, join(page)) ELSE pgs
    IN IF flushed = <<>> THEN <<NoContent>> ELSE flushed

\* the loop over the paragraphs from paragraph i on, lines 91-106: pgs is
\* self.pages, page the local current_page, lines the local current_lines
RECURSIVE PackLoop(_, _, _, _, _, _, _)
PackLoop(paragraphs, i, pgs, page, lines, w, h) ==
    IF i > Len(paragraphs) THEN Flush(pgs, page)
    ELSE LET para == paragraphs[i] IN
         IF lines + para_lines(para, w) > console_height(h)
         THEN IF page # <<>>
              THEN PackLoop(paragraphs, i + 1, Append(pgs, join(page)),
                            <<para>>, para_lines(para, w), w, h)
              ELSE PackLoop(paragraphs, i + 1, Append(pgs, para), <<>>, 0, w, h)
         ELSE PackLoop(paragraphs, i + 1, pgs, Append(page, para),
                       lines + para_lines(para, w), w, h)

\* the page list display_current derives, for a width that does not raise
paginate(content, w, h) == PackLoop(split(content), 1, <<>>, <<>>, 0, w, h)

\* Clamp without its upper check
ClampLowerOnly(page, n) == IF page < 0 THEN 0 ELSE page

\* the safety check of current_page, lines 116-120
Clamp(page, n) ==
    IF page >= n THEN n - 1
    ELSE IF page < 0 THEN 0
    ELSE page

(***************************************************************************)
(* Section extraction, reader.py:35-72.  An item of the book is a record   *)
(* of its type, what get_content() returns (raw: "ok" for bytes that       *)
(* decode and convert to text, "bad" for bytes on which decode or handle   *)
(* raises, "empty" for b''), its title attribute (<<>> for None or '')     *)
(* and its file_name.                                                      *)
(***************************************************************************)
Whitespace == {" ", NL}

\* s.lstrip(chars)
RECURSIVE lstrip(_, _)
lstrip(s, chars) ==
    IF s # <<>> /\ Head(s) \in chars THEN lstrip(Tail(s), chars) ELSE s

\* s.rstrip(chars)
RECURSIVE rstrip(_, _)
rstrip(s, chars) ==
    IF s # <<>> /\ s[Len(s)] \in chars
    THEN rstrip(SubSeq(s, 1, Len(s) - 1), chars)
    ELSE s

\* s.strip()
strip(s) == rstrip(lstrip(s, Whitespace), Whitespace)

\* s.split('\n') from position i on, cur being the line read so far
RECURSIVE splitLinesFrom(_, _, _)
splitLinesFrom(s, i, cur) ==
    IF i > Len(s) THEN <<cur>>
    ELSE IF s[i] = NL THEN <<cur>> \o splitLinesFrom(s, i + 1, <<>>)
    ELSE splitLinesFrom(s, i + 1, Append(cur, s[i]))

splitLines(s) == splitLinesFrom(s, 1, <<>>)

\* s.replace('_', ' ')
replace(s) == [i \in 1..Len(s) |-> IF s[i] = "_" THEN " " ELSE s[i]]

\* s.rfind(c), counted from 1, 0 when c is not in s
RECURSIVE rfind(_, _)
rfind(s, c) ==
    IF s = <<>> THEN 0
    ELSE IF s[Len(s)] = c THEN Len(s)
    ELSE rfind(SubSeq(s, 1, Len(s) - 1), c)

\* Path(file_name).name: what follows the last '/'
name(file_name) == SubSeq(file_name, rfind(file_name, "/") + 1, Len(file_name))

\* Path(file_name).stem: the name without its last suffix; a dot that
\* begins or ends the name begins no suffix
stem(file_name) ==
    LET n == name(file_name)
        dot == rfind(n, ".")
    IN IF 1 < dot /\ dot < Len(n) THEN SubSeq(n, 1, dot - 1) ELSE n

\* lines[:5] without its limit
FirstLinesAll(lines) == lines

\* lines[:5], line 67
FirstLines(lines) ==
    SubSeq(lines, 1, IF Len(lines) < ScanLimit THEN Len(lines) ELSE ScanLimit)

\* the first line from line j on that starts with '#', 0 when there is none
RECURSIVE FirstHeading(_, _)
FirstHeading(lines, j) ==
    IF j > Len(lines) THEN 0
    ELSE IF lines[j] # <<>> /\ lines[j][1] = "#" THEN j
    ELSE FirstHeading(lines, j + 1)

\* line.lstrip('#').strip(), line 69
HeadingText(line) == strip(lstrip(line, {"#"}))

\* Path(item.file_name).stem.replace('_', ' ').strip(), line 72
FileTitle(file_name) == strip(replace(stem(file_name)))

\* lines 65-72: the title of an item without a title attribute
ContentTitle(item, content) ==
    LET lines == FirstLines(splitLines(strip(content)))
        j == FirstHeading(lines, 1)
    IN IF j > 0 THEN HeadingText(lines[j]) ELSE FileTitle(item.file_name)

\* _extract_title with the heading before the title attribute
extract_titleHeadingFirst(item, content) ==
    LET lines == FirstLines(splitLines(strip(content)))
        j == FirstHeading(lines, 1)
    IN IF j > 0 THEN HeadingText(lines[j])
       ELSE IF item.title # <<>> THEN item.title
       ELSE FileTitle(item.file_name)

\* _extract_title, lines 60-72
extract_title(item, content) ==
    IF item.title # <<>> THEN item.title ELSE ContentTitle(item, content)

\* content after lines 46-47: the converted text, or the b'' that
\* get_content() returned
Converted(item) == IF item.raw = "ok" THEN item.text ELSE <<>>

\* decode or handle raises, line 47
ConvertRaises(item) == item.raw = "bad"

\* content.strip().split('\n') raises TypeError on bytes, line 65
TitleRaises(item) == item.title = <<>> /\ item.raw = "empty"

\* an exception leaves the try block of lines 45-54
Raises(item) == ConvertRaises(item) \/ TitleRaises(item)

None == <<>>

\* prev['title'] if prev else None, line 51; prev is <<>> or <<section>>
Parent(prev) == IF prev # <<>> THEN <<prev[1].title>> ELSE None

\* the section of lines 49-52
MakeSection(item, prev) ==
    [content |-> Converted(item),
     title |-> extract_title(item, Converted(item)),
     parent |-> Parent(prev)]

\* sections after the try block: line 53 is reached when nothing raised
Appended(raised, secs, section) ==
    IF raised THEN secs ELSE Append(secs, section)

\* line 54 never run
NextPrevStale(raised, prev, section) == prev

\* prev after the try block: line 54 is reached when nothing raised
NextPrev(raised, prev, section) == IF raised THEN prev ELSE <<section>>

\* the warnings printed so far, line 56
Warned(raised, warns) == IF raised THEN warns + 1 ELSE warns

\* the loop left at the first exception
NextItemAbort(raised, its, i) == IF raised THEN Len(its) + 1 ELSE i + 1

\* the item the loop of line 40 goes on with: the except clause of lines
\* 55-56 ends the iteration, not the loop
NextItem(raised, its, i) == i + 1

\* the loop of lines 40-56 from item i on
RECURSIVE ProcessLoop(_, _, _, _, _)
ProcessLoop(its, i, secs, prev, warns) ==
    IF i > Len(its) THEN [sections |-> secs, warnings |-> warns]
    ELSE IF its[i].type # "document"
    THEN ProcessLoop(its, i + 1, secs, prev, warns)
    ELSE ProcessLoop(its, NextItem(Raises(its[i]), its, i),
                     Appended(Raises(its[i]), secs, MakeSection(its[i], prev)),
                     NextPrev(Raises(its[i]), prev, MakeSection(its[i], prev)),
                     Warned(Raises(its[i]), warns))

\* _process_sections, lines 35-58
process_sections(its) == ProcessLoop(its, 1, <<>>, <<>>, 0)

(***************************************************************************)
(* The state of a Reader and of the main loop.                             *)
(***************************************************************************)
VARIABLES
    sections,       \* self.sections: the book's sections, in document order
    current_index,  \* self.current_index
    current_page,   \* self.current_page
    pages,          \* self.pages
    width,          \* console.width, as display_current reads it
    height,         \* console.height, as display_current reads it
    pc,             \* where read() is: "construct", "display", "readkey",
                    \* "done", "closed", "crashed"
    direction,      \* the direction of the last iteration's navigate call
    ret,            \* what that call returned: "True", "False", or "none"
    from_index,     \* current_index when the last command was read
    from_page,      \* current_page when the last command was read
    direction2,     \* the direction of the iteration before
    items,          \* self.book.get_items(), read by __init__ only
    warnings,       \* the warnings _process_sections has printed
    feature         \* the feature key of the last iteration and how the
                    \* collaborator's call ended, <<"", "">> without one

vars == <<sections, current_index, current_page, pages, width, height, pc,
          direction, ret, from_index, from_page, direction2, items, warnings,
          feature>>

NoFeature == <<"", "">>

\* what __init__ reads and prints
loading == <<items, warnings>>

history == <<direction, ret, from_index, from_page, direction2, feature>>

\* a section content of n one-character paragraphs
RECURSIVE Paragraphs(_)
Paragraphs(n) == IF n = 0 THEN <<>> ELSE Append(Paragraphs(n - 1), <<"a">>)

BookContents == {join(Paragraphs(n)) : n \in 0..MaxParas}

Section(content) == [content |-> content]

\* the books of the reader specifications, the book without sections included
Books == UNION {[1..n -> {Section(c) : c \in BookContents}] : n \in 0..MaxSections}

\* Reader.__init__, and read() about to call display_current
InitReader(book) ==
    /\ sections = book
    /\ current_index = 0
    /\ current_page = 0
    /\ pages = <<>>
    /\ width \in Widths
    /\ height \in Heights
    /\ pc = "display"
    /\ direction = 0
    /\ ret = "none"
    /\ from_index = 0
    /\ from_page = 0
    /\ direction2 = 0
    \* the sections are given; the loop never reads the items again
    /\ items = <<>>
    /\ warnings = 0
    /\ feature = NoFeature

Init == \E book \in Books : InitReader(book)

(***************************************************************************)
(* display_current, reader.py:74-154.                                      *)
(***************************************************************************)
\* display_current without line 87: the pages of the run before are kept
display_currentKeepPages ==
    /\ pc = "display"
    /\ IF sections = <<>>
       THEN /\ pc' = "readkey"
            /\ UNCHANGED <<pages, current_page>>
       ELSE IF DivisionByZero(width)
       THEN /\ pc' = "crashed"
            /\ UNCHANGED <<pages, current_page>>
       ELSE /\ pages' = PackLoop(split(sections[current_index + 1].content), 1,
                                 pages, <<>>, 0, width, height)
            /\ current_page' = Clamp(current_page, Len(pages'))
            /\ pc' = "readkey"
    /\ UNCHANGED <<sections, current_index, width, height, history, loading>>

display_current ==
    /\ pc = "display"
    /\ IF sections = <<>>
       THEN /\ pc' = "readkey"
            /\ UNCHANGED <<pages, current_page>>
       ELSE IF DivisionByZero(width)
       THEN \* line 87 has emptied self.pages; the error leaves read()
            /\ pages' = <<>>
            /\ pc' = "crashed"
            /\ UNCHANGED current_page
       ELSE /\ pages' = paginate(sections[current_index + 1].content, width, height)
            /\ current_page' = Clamp(current_page, Len(pages'))
            /\ pc' = "readkey"
    /\ UNCHANGED <<sections, current_index, width, height, history, loading>>

\* the terminal's size is another one when display_current next reads it
Resize(w, h) ==
    /\ pc = "display"
    /\ <<w, h>> # <<width, height>>
    /\ width' = w
    /\ height' = h
    /\ UNCHANGED <<sections, current_index, current_page, pages, pc, history, loading>>

(***************************************************************************)
(* navigate, reader.py:171-191.  Each case gives the record of the new     *)
(* indices and the value returned.                                         *)
(***************************************************************************)
Fail == [index |-> current_index, page |-> current_page, ret |-> FALSE]

SectionInRange(new_index) == 0 <= new_index /\ new_index < Len(sections)

\* PageInRange without its lower check
PageInRangeUpperOnly(new_page) == new_page < Len(pages)

PageInRange(new_page) == 0 <= new_page /\ new_page < Len(pages)

\* SectionMove leaving current_page as it is
SectionMoveKeepPage(d) ==
    LET new_index == current_index + d IN
    IF 0 <= new_index /\ new_index < Len(sections)
    THEN [index |-> new_index, page |-> current_page, ret |-> TRUE]
    ELSE [index |-> current_index, page |-> current_page, ret |-> FALSE]

\* case -1 | 1
SectionMove(d) ==
    LET new_index == current_index + d IN
    IF SectionInRange(new_index)
    THEN [index |-> new_index, page |-> 0, ret |-> TRUE]
    ELSE Fail

\* CrossPage keeping the page index when it enters the next section
CrossPageKeep(d) == IF d = 2 THEN current_page ELSE Len(pages) - 1

\* the page a page move lands on in the neighbouring section, line 187
CrossPage(d) == IF d = 2 THEN 0 ELSE Len(pages) - 1

\* case -2 | 2
PageMove(d) ==
    LET step == IF d = 2 THEN 1 ELSE -1
        new_page == current_page + step
        new_index == current_index + step
    IN IF PageInRange(new_page)
       THEN [index |-> current_index, page |-> new_page, ret |-> TRUE]
       ELSE IF SectionInRange(new_index)
       THEN [index |-> new_index, page |-> CrossPage(d), ret |-> TRUE]
       ELSE Fail

\* JumpStart resetting the section only
JumpStartSectionOnly == [index |-> 0, page |-> current_page, ret |-> TRUE]

\* case -99
JumpStart == [index |-> 0, page |-> 0, ret |-> TRUE]

\* case 99
JumpEnd == [index |-> Len(sections) - 1, page |-> Len(pages) - 1, ret |-> TRUE]

NavigateResult(d) ==
    CASE d \in {-1, 1} -> SectionMove(d)
      [] d \in {-2, 2} -> PageMove(d)
      [] d = -99 -> JumpStart
      [] d = 99 -> JumpEnd
      [] OTHER -> Fail

Remember ==
    /\ from_index' = current_index
    /\ from_page' = current_page
    /\ direction2' = direction

navigate(d) ==
    LET r == NavigateResult(d) IN
    /\ current_index' = r.index
    /\ current_page' = r.page
    /\ direction' = d
    /\ ret' = IF r.ret THEN "True" ELSE "False"
    /\ Remember
    /\ feature' = NoFeature
    /\ UNCHANGED <<sections, pages, width, height, loading>>

(***************************************************************************)
(* The main loop of read(), reader.py:395-409.                             *)
(***************************************************************************)
\* the direction each navigation key passes to navigate
NavKeys == {"h", "l", "j", "k", "g", "G"}

DirectionOf(k) ==
    CASE k = "h" -> -1
      [] k = "l" -> 1
      [] k = "j" -> 2
      [] k = "k" -> -2
      [] k = "g" -> -99
      [] k = "G" -> 99

NavKey(k) ==
    /\ pc = "readkey"
    /\ navigate(DirectionOf(k))
    /\ pc' = "display"

\* a key no case matches: the loop goes round
OtherKey ==
    /\ pc = "readkey"
    /\ pc' = "display"
    /\ direction' = 0
    /\ ret' = "none"
    /\ Remember
    /\ feature' = NoFeature
    /\ UNCHANGED <<sections, current_index, current_page, pages, width, height, loading>>

\* case 'q': break
Quit ==
    /\ pc = "readkey"
    /\ pc' = "done"
    /\ UNCHANGED <<sections, current_index, current_page, pages, width, height, history, loading>>

Next ==
    \/ display_current
    \/ \E w \in Widths, h \in Heights : Resize(w, h)
    \/ \E k \in NavKeys : NavKey(k)
    \/ OtherKey
    \/ Quit

Spec == Init /\ [][Next]_vars

\* the reader only ever presses the next-page key
NextPageOnly ==
    \/ display_current
    \/ NavKey("j")

\* the loop of read() always goes on to display_current, and the next-page
\* key is pressed again and again
SpecNextPage ==
    /\ Init
    /\ [][NextPageOnly]_vars
    /\ WF_vars(display_current)
    /\ WF_vars(NavKey("j"))

\* navigate called with any direction code, the codes no case matches
\* included, by a caller that keeps the discipline of read()
DirectionCodes == {-99, -2, -1, 0, 1, 2, 3, 99}

Call(d) ==
    /\ pc = "readkey"
    /\ navigate(d)
    /\ pc' = "display"

NextNavigate ==
    \/ display_current
    \/ \E w \in Widths, h \in Heights : Resize(w, h)
    \/ \E d \in DirectionCodes : Call(d)

SpecNavigate == Init /\ [][NextNavigate]_vars

\* every text of at most MaxLen characters
Texts == UNION {[1..n -> Chars] : n \in 0..MaxLen}

\* a book of one section of any text, paginated again and again at any size
InitPaginate == \E content \in Texts : InitReader(<<Section(content)>>)

NextPaginate ==
    \/ display_current
    \/ \E w \in Widths, h \in Heights : Resize(w, h)
    \/ OtherKey

SpecPaginate == InitPaginate /\ [][NextPaginate]_vars

(***************************************************************************)
(* The features of the main loop, reader.py:223-384.  The call of the AI   *)
(* or audio collaborator ends as "done", raises an Exception ("error") or  *)
(* is interrupted by the user (KeyboardInterrupt, "interrupt"); "none" is  *)
(* a feature that returns without the call.                                *)
(***************************************************************************)
FeatureKeys == {"a", "s", "r", ">"}

Outcomes == {"done", "error", "interrupt"}

\* self.sections[self.current_index] or self.pages[self.current_page] of
\* _get_section_context raises IndexError, lines 196-197
ContextRaises ==
    \/ ~(-Len(sections) <= current_index /\ current_index < Len(sections))
    \/ ~(-Len(pages) <= current_page /\ current_page < Len(pages))

\* the feature reaches its collaborator: ask_ai and read_compass after
\* _get_section_context, summarize_current and read_aloud unless pages is
\* empty (lines 285, 341)
Reaches(k) == IF k \in {"a", ">"} THEN ~ContextRaises ELSE pages # <<>>

\* the handlers of every feature catching KeyboardInterrupt only
CatchesInterruptOnly(k, o) == o = "interrupt" /\ k \in {"r", ">"}

\* the except clauses around the collaborator's call: Exception in all four
\* features (lines 279, 335, 355, 381), KeyboardInterrupt in read_aloud and
\* read_compass only (lines 353, 379)
Catches(k, o) == o = "error" \/ (o = "interrupt" /\ k \in {"r", ">"})

\* where read() is after the feature: the loop goes round, or the
\* KeyboardInterrupt reaches line 410 and closes the reader, or the
\* exception leaves read()
AfterFeature(k, o) ==
    IF o \in {"none", "done"} \/ Catches(k, o) THEN "display"
    ELSE IF o = "interrupt" THEN "closed"
    ELSE "crashed"

\* case 'a', 's', 'r', '>': the feature of key k, its collaborator's call
\* ending as o
Feature(k, o) ==
    /\ pc = "readkey"
    /\ IF Reaches(k)
       THEN /\ o \in Outcomes \/ (k = "a" /\ o = "none")
            /\ pc' = AfterFeature(k, o)
       ELSE /\ o = "none"
            \* the IndexError of line 266 is outside the try of ask_ai; that
            \* of line 373 is caught at line 381
            /\ pc' = IF k = "a" THEN "crashed" ELSE "display"
    /\ feature' = <<k, o>>
    /\ direction' = 0
    /\ ret' = "none"
    /\ Remember
    /\ UNCHANGED <<sections, current_index, current_page, pages, width, height, loading>>

\* case 't': show_toc, lines 156-169
show_toc ==
    /\ pc = "readkey"
    /\ pc' = "display"
    /\ feature' = <<"t", "none">>
    /\ direction' = 0
    /\ ret' = "none"
    /\ Remember
    /\ UNCHANGED <<sections, current_index, current_page, pages, width, height, loading>>

\* the main loop with its features, at a console size that never changes
NextRead ==
    \/ display_current
    \/ \E k \in NavKeys : NavKey(k)
    \/ \E k \in FeatureKeys, o \in Outcomes \cup {"none"} : Feature(k, o)
    \/ show_toc
    \/ Quit

SpecRead == Init /\ [][NextRead]_vars

\* the main loop at a console size that never changes
NextFixedViewport ==
    \/ display_current
    \/ \E k \in NavKeys : NavKey(k)
    \/ OtherKey

SpecFixedViewport == Init /\ [][NextFixedViewport]_vars

(***************************************************************************)
(* The construction of a Reader from the items of a book,                  *)
(* reader.py:20-26.                                                        *)
(***************************************************************************)
\* the lines of a converted content: blank, text, a heading, and a line
\* whose '#' is indented
LineKinds == {<<>>, <<"a">>, <<"#", "#", " ", "b", " ">>, <<" ", "#", "c">>}

\* '\n'.join(lines)
RECURSIVE joinLines(_)
joinLines(lines) ==
    IF lines = <<>> THEN <<>>
    ELSE IF Len(lines) = 1 THEN lines[1]
    ELSE lines[1] \o <<NL>> \o joinLines(Tail(lines))

\* every content of at most MaxLines lines
Contents == {joinLines(ls) : ls \in UNION {[1..n -> LineKinds] : n \in 0..MaxLines}}

Titles == {<<>>, <<"T">>}

FileNames == {<<"a", "_", "b", ".", "x">>, <<"_", "a", ".", "x">>,
              <<"d", "/", "a", ".", "b", ".", "x">>}

\* one document of any content
ContentItems ==
    [type : {"document"}, raw : {"ok"}, title : Titles, text : Contents,
     file_name : FileNames]

\* the three items of the examples of title resolution
ExampleItems ==
    {[type |-> "document", raw |-> "ok", title |-> <<"C", "h", "1">>,
     text |-> <<"#", " ", "I", "n", "t", "r", "o", "\n", "b", "o", "d", "y">>, file_name |-> <<"x", ".", "h", "t", "m", "l">>],
     [type |-> "document", raw |-> "ok", title |-> <<>>,
     text |-> <<"#", " ", "I", "n", "t", "r", "o", "\n", "b", "o", "d", "y">>, file_name |-> <<"x", ".", "h", "t", "m", "l">>],
     [type |-> "document", raw |-> "ok", title |-> <<>>,
     text |-> <<"b", "o", "d", "y">>, file_name |-> <<"p", "a", "r", "t", "_", "t", "w", "o", ".", "h", "t", "m", "l">>]}

\* the items of the books of several items: documents that convert, one to
\* a text with a heading, documents that do not, documents of empty
\* content, and an item that is no document
BookItems ==
    [type : {"document"}, raw : {"ok"}, title : Titles,
     text : {<<"a">>, <<"#", "b">>}, file_name : {<<"n", ".", "x">>}]
    \cup [type : {"document"}, raw : {"bad", "empty"}, title : Titles,
          text : {<<>>}, file_name : {<<"n", ".", "x">>}]
    \cup [type : {"image"}, raw : {"ok"}, title : {<<>>},
          text : {<<>>}, file_name : {<<"i", ".", "p">>}]

ItemLists ==
    UNION {[1..n -> BookItems] : n \in 0..MaxItems}
    \cup {<<item>> : item \in ContentItems \cup ExampleItems}

\* read() about to construct the Reader of a book
InitConstruct ==
    /\ items \in ItemLists
    /\ sections = <<>>
    /\ warnings = 0
    /\ current_index = 0
    /\ current_page = 0
    /\ pages = <<>>
    /\ width \in {Margin + 2}
    /\ height \in {HeightMargin + 1}
    /\ pc = "construct"
    /\ direction = 0
    /\ ret = "none"
    /\ from_index = 0
    /\ from_page = 0
    /\ direction2 = 0
    /\ feature = NoFeature

\* Reader.__init__, lines 20-26
Construct ==
    /\ pc = "construct"
    /\ sections' = process_sections(items).sections
    /\ warnings' = process_sections(items).warnings
    /\ current_index' = 0
    /\ current_page' = 0
    /\ pages' = <<>>
    /\ pc' = "display"
    /\ UNCHANGED <<items, width, height, history>>

SpecConstruct == InitConstruct /\ [][Construct]_vars

(***************************************************************************)
(* The claims.                                                             *)
(***************************************************************************)
Position == <<current_index, current_page>>

Waiting == pc = "readkey" /\ sections # <<>>

\* the pages of section i (counted from 0) at the console size read
PagesOf(i) == paginate(sections[i + 1].content, width, height)

PageCount(i) == Len(PagesOf(i))

LastSection == Len(sections) - 1

\* C1: for a book with at least one section, whenever the main loop waits
\* for a command (display_current has run), current_index is an index of
\* sections, pages is the pagination of the current section at the console
\* size display_current read, and current_page is an index of pages.
C1_PositionValid ==
    Waiting =>
        /\ 0 <= current_index
        /\ current_index < Len(sections)
        /\ pages = PagesOf(current_index)
        /\ 0 <= current_page
        /\ current_page < Len(pages)

\* a jump to the end from the first section has landed on a later page of a
\* later section
C1_Witness ==
    /\ Waiting
    /\ direction = 99
    /\ from_index = 0
    /\ current_index > 0
    /\ current_page > 0

\* the position after (i, p) in document order, the last position being its
\* own successor
Successor(i, p) ==
    IF p + 1 < PageCount(i) THEN <<i, p + 1>>
    ELSE IF i + 1 < Len(sections) THEN <<i + 1, 0>>
    ELSE <<i, p>>

LastPosition == <<LastSection, PageCount(LastSection) - 1>>

\* C2: with the console size fixed and a book with at least one section,
\* every next-page command moves from the position shown to its successor in
\* document order (so no position is skipped or shown twice), the page
\* re-derivation that follows leaves that position alone, the last page of
\* the last section is eventually shown, and there the command changes
\* nothing.
C2_NextPageDocumentOrder ==
    /\ [][(Waiting /\ pc' = "display")
            => Position' = Successor(current_index, current_page)]_vars
    /\ [][(sections # <<>> /\ pc = "display" /\ pc' = "readkey")
            => Position' = Position]_vars
    /\ [][(Waiting /\ Position = LastPosition) => Position' = LastPosition]_vars
    /\ (Waiting ~> (Waiting /\ Position = LastPosition))

\* the reader has paged through a book of two sections to the last of
\* several pages, where a further next-page command failed
C2_Witness ==
    /\ Waiting
    /\ direction = 2
    /\ ret = "False"
    /\ direction2 = 2
    /\ Len(sections) > 1
    /\ Position = LastPosition
    /\ current_page > 0

\* C3: a previous-page command on page 0 of a section i > 0 leaves the
\* reader, once the pages are re-derived, on the last page of section i-1;
\* on a page p > 0 it only decrements the page; on page 0 of section 0 it
\* changes nothing.
C3_PrevPage ==
    /\ (pc = "display" /\ sections # <<>> /\ direction = -2 /\ from_page > 0)
          => Position = <<from_index, from_page - 1>>
    /\ (pc = "display" /\ sections # <<>> /\ direction = -2
            /\ from_page = 0 /\ from_index = 0)
          => (Position = <<0, 0>> /\ ret = "False")
    /\ (Waiting /\ direction = -2 /\ from_page = 0 /\ from_index > 0)
          => Position = <<from_index - 1, PageCount(from_index - 1) - 1>>

\* C4: a jump to the end succeeds and leaves the reader, once the pages are
\* re-derived, on the last page of the last section.
C4_JumpEnd ==
    (Waiting /\ direction = 99) => (ret = "True" /\ Position = LastPosition)

\* a step of navigate
NavigateStep == pc = "readkey" /\ pc' = "display" /\ ret' # "none"

\* the position each operation is specified to reach from the position shown
TargetIndex(d) ==
    CASE d = -1 -> current_index - 1
      [] d = 1 -> current_index + 1
      [] d = -2 -> IF current_page > 0 THEN current_index ELSE current_index - 1
      [] d = 2 -> IF current_page + 1 < PageCount(current_index)
                  THEN current_index ELSE current_index + 1
      [] d = -99 -> 0
      [] d = 99 -> LastSection

TargetPage(d) ==
    CASE d \in {-1, 1} -> 0
      [] d = -2 -> IF current_page > 0 THEN current_page - 1
                   ELSE PageCount(current_index - 1) - 1
      [] d = 2 -> IF current_page + 1 < PageCount(current_index)
                  THEN current_page + 1 ELSE 0
      [] d = -99 -> 0
      [] d = 99 -> PageCount(LastSection) - 1

C6_RoundTripEverySection ==
    [][(Waiting /\ direction = 1 /\ pc' = "display" /\ direction' = -1)
          => (current_index' = from_index /\ current_page' = 0)]_vars

\* C6, amended: from every section but the last, a next-section command
\* followed by a previous-section command returns to the section it started
\* from, on page 0.
C6_RoundTripBeforeLast ==
    [][(Waiting /\ direction = 1 /\ from_index + 1 < Len(sections)
            /\ pc' = "display" /\ direction' = -1)
          => (current_index' = from_index /\ current_page' = 0)]_vars

\* next section, then previous section, has come back
C6_Witness ==
    /\ Waiting
    /\ direction2 = 1
    /\ direction = -1
    /\ ret = "True"
    /\ current_index = from_index - 1
    /\ current_page = 0

\* C7: in a book with at least one section, a jump to the end followed by
\* a jump to the start leaves the reader at (0, 0), before and after the
\* pages are re-derived.
C7_JumpEndJumpStart ==
    (sections # <<>> /\ direction2 = 99 /\ direction = -99) => Position = <<0, 0>>

\* the jump to the start was made from a later page of a later section, which
\* the jump to the end had reached
C7_Witness ==
    /\ Waiting
    /\ direction2 = 99
    /\ direction = -99
    /\ from_index > 0
    /\ from_page > 0
    /\ Position = <<0, 0>>

\* the paragraphs of all the pages, in order
RECURSIVE ParagraphsOf(_)
ParagraphsOf(pgs) ==
    IF pgs = <<>> THEN <<>> ELSE split(Head(pgs)) \o ParagraphsOf(Tail(pgs))

\* display_current has run on the section, to its end or to an error
Paginated == sections # <<>> /\ pc \in {"readkey", "crashed"}

CurrentContent == sections[current_index + 1].content

\* C8: for content that is not empty and a console of width and height of
\* at least 1, pagination yields at least one page, and the paragraphs of
\* the pages, in order, are the paragraphs of the content.
C8_PagesKeepParagraphs ==
    (Paginated /\ CurrentContent # <<>> /\ width >= 1 /\ height >= 1)
        => (Len(pages) >= 1 /\ ParagraphsOf(pages) = split(CurrentContent))

\* C9: the pagination of the empty text is the one page '[No content]'.
C9_EmptyContentPlaceholder ==
    (Paginated /\ CurrentContent = <<>>) => pages = <<NoContent>>

\* C10: pagination ends, and every paragraph whose estimated lines exceed
\* the line budget is the only paragraph of its page.
C10_OversizedParagraphAlone ==
    /\ pc = "display" => ENABLED display_current
    /\ Waiting =>
         \A k \in 1..Len(pages) :
            LET paras == split(pages[k]) IN
            \A j \in 1..Len(paras) :
               para_lines(paras[j], width) > console_height(height)
                   => Len(paras) = 1

\* C11: at a console size that does not change, a display_current that runs
\* again on the section it has already paginated, with no navigation in
\* between, leaves pages, current_index and current_page as they are.
C11_RepaginationIdempotent ==
    [][(pc = "display" /\ pc' = "readkey" /\ pages # <<>> /\ ret = "none")
          => /\ pages' = pages
             /\ current_index' = current_index
             /\ current_page' = current_page]_vars

\* a later page of a later section, reached by a navigation, has been
\* displayed, a key without effect was read, and it was displayed again
C11_Witness ==
    /\ Waiting
    /\ ret = "none"
    /\ direction2 # 0
    /\ current_index > 0
    /\ current_page > 0
    /\ Len(pages) > 1

\* the estimate the specification gives: the length divided by the usable
\* width, which is at least 1, rounded up
CeilDiv(a, b) == (a + b - 1) \div b

UsableWidth(w) == IF w - Margin > 1 THEN w - Margin ELSE 1

\* C17: at every width of at least 1, display_current estimates each
\* paragraph at ceil(len / max(1, width - margin)) + newlines + overhead
\* lines, a number that is never negative.
C17_EstimateRoundsUp ==
    (Paginated /\ width >= 1) =>
        \A p \in 1..Len(split(CurrentContent)) :
            LET para == split(CurrentContent)[p] IN
            /\ ~DivisionByZero(width)
            /\ para_lines(para, width)
                 = CeilDiv(Len(para), UsableWidth(width)) + count(para, NL) + Overhead
            /\ para_lines(para, width) >= 0

\* the estimated lines of the paragraphs from paragraph j on
RECURSIVE SumLines(_, _)
SumLines(paras, j) ==
    IF j > Len(paras) THEN 0
    ELSE para_lines(paras[j], width) + SumLines(paras, j + 1)

\* the estimated lines of page k of pages
PageLines(k) == SumLines(split(pages[k]), 1)

\* C18: every page of two or more paragraphs has estimated lines within the
\* line budget, and the estimated lines of every page but the last, plus
\* those of the first paragraph of the page after it, exceed the budget.
C18_PackingRespectsBudget ==
    Waiting =>
        \A k \in 1..Len(pages) :
            /\ Len(split(pages[k])) >= 2 => PageLines(k) <= console_height(height)
            /\ k < Len(pages) =>
                 PageLines(k) + para_lines(split(pages[k + 1])[1], width)
                     > console_height(height)

\* C20: in a book without sections the position stays (0, 0) and pages
\* stays empty, whatever keys are read.
C20_EmptyBookStaysAtOrigin ==
    sections = <<>> => (Position = <<0, 0>> /\ pages = <<>>)

\* Reader.__init__ has run on the items
Constructed == pc = "display"

IsDocument(item) == item.type = "document"

\* the item cannot be decoded or converted: decode or handle raises, or
\* its content is the empty bytes, which the search for a heading cannot
\* split into lines
Failing(item) ==
    \/ item.raw = "bad"
    \/ item.raw = "empty" /\ item.title = <<>>

FailingDocument(item) == IsDocument(item) /\ Failing(item)

KeptDocument(item) == IsDocument(item) /\ ~Failing(item)

\* the document items that do not fail, in the order of the book
Kept == SelectSeq(items, KeptDocument)

HeadingIn(lines, n) ==
    LET found == {j \in 1..n : j <= Len(lines) /\ lines[j] # <<>> /\ lines[j][1] = "#"}
    IN IF found = {} THEN 0 ELSE CHOOSE j \in found : \A k \in found : j <= k

\* the lines of the content without its leading and trailing whitespace
StrippedLines(item) == splitLines(strip(Converted(item)))

\* the title of the kept item it: its title attribute if not empty, else
\* the first heading the search finds, without its leading '#' and the
\* whitespace around it, else filetitle, when no line is a heading
TitleByPriority(it, t, filetitle) ==
    LET lines == StrippedLines(it) IN
    /\ it.title # <<>> => t = it.title
    /\ (it.title = <<>> /\ HeadingIn(lines, ScanLimit) > 0)
          => t = strip(lstrip(lines[HeadingIn(lines, ScanLimit)], {"#"}))
    /\ (it.title = <<>> /\ HeadingIn(lines, Len(lines)) = 0) => t = filetitle

\* C13 as stated: the title of a section is the title attribute if not
\* empty, else the heading found, stripped, else the file name with its
\* extension removed and its underscores replaced by spaces.
C13_TitlePriority ==
    Constructed =>
        \A i \in 1..Len(sections) :
            TitleByPriority(Kept[i], sections[i].title,
                            replace(stem(Kept[i].file_name)))

\* C13 amended: as stated, the file name also losing the whitespace at its
\* two ends after the underscores are replaced.
C13_TitlePriorityTrimmed ==
    Constructed =>
        \A i \in 1..Len(sections) :
            TitleByPriority(Kept[i], sections[i].title,
                            strip(replace(stem(Kept[i].file_name))))

\* an item with a title attribute and a heading in its content got the
\* title attribute
C13_Witness ==
    /\ Constructed
    /\ Len(items) = 1
    /\ Len(sections) = 1
    /\ items[1].title # <<>>
    /\ HeadingIn(StrippedLines(items[1]), ScanLimit) > 0
    /\ sections[1].title = items[1].title

\* C14: the parent of the first section is None, and the parent of every
\* later section is the title of the section before it in sections.
C14_ParentIsPreviousSection ==
    Constructed =>
        \A i \in 1..Len(sections) :
            sections[i].parent =
                IF i = 1 THEN None ELSE <<sections[i - 1].title>>

\* a failing document with a title attribute stood between two documents:
\* the parent of the second section is the title of the first
C14_Witness ==
    /\ Constructed
    /\ Len(items) = 3
    /\ items[2].raw = "bad"
    /\ items[2].title # <<>>
    /\ Len(sections) = 2
    /\ sections[1].title # items[2].title
    /\ sections[2].parent = <<sections[1].title>>

NonEmpty(line) == line # <<>>

\* the title the search of lines gives an item without title attribute:
\* the first heading among the first ScanLimit lines, else the file name
SearchedTitle(it, lines) ==
    IF HeadingIn(lines, ScanLimit) > 0
    THEN strip(lstrip(lines[HeadingIn(lines, ScanLimit)], {"#"}))
    ELSE FileTitle(it.file_name)

\* the one item of the book has no title attribute and converts
Untitled ==
    /\ Constructed
    /\ Len(items) = 1
    /\ Len(sections) = 1
    /\ items[1].title = <<>>
    /\ items[1].raw = "ok"

\* C19 as stated: the title of an item without title attribute is the
\* first heading among the first 5 non-empty lines of its content, and
\* the file name when there is no heading among them.
C19_HeadingAmongNonEmptyLines ==
    Untitled =>
        sections[1].title =
            SearchedTitle(items[1], SelectSeq(splitLines(items[1].text), NonEmpty))

\* C19 amended: the title of an item without title attribute is the first
\* heading among the first 5 lines, blank lines included, of its content
\* without leading and trailing whitespace, and the file name when there
\* is no heading among them.
C19_HeadingAmongFirstLines ==
    Untitled => sections[1].title = SearchedTitle(items[1], StrippedLines(items[1]))

\* a heading on the sixth line, fewer than 5 non-empty lines before it, was
\* passed over for the file name
C19_Witness ==
    /\ Untitled
    /\ Len(StrippedLines(items[1])) >= ScanLimit + 1
    /\ HeadingIn(StrippedLines(items[1]), ScanLimit) = 0
    /\ HeadingIn(StrippedLines(items[1]), ScanLimit + 1) = ScanLimit + 1
    /\ Len(SelectSeq(StrippedLines(items[1]), NonEmpty)) <= ScanLimit
    /\ sections[1].title = FileTitle(items[1].file_name)

\* C15: after an interrupt of the collaborator's call of a feature the
\* reader is not closed: read() is in its loop, at the position it had
\* when the feature's key was read.
C15_CancellationReturnsToLoop ==
    feature[2] = "interrupt" =>
        /\ pc \in {"display", "readkey"}
        /\ Position = <<from_index, from_page>>

\* C16: an iteration of the main loop in which the collaborator's call of
\* a feature raises an Exception ends with read() going round its loop and
\* current_index, current_page, pages and sections as they were.
C16_FailureRecovered ==
    [][(\E k \in FeatureKeys : Feature(k, "error"))
          => /\ pc' = "display"
             /\ UNCHANGED <<current_index, current_page, pages, sections>>]_vars

\* the collaborator of the audio guide has raised on a later page of a
\* later section, and the loop waits for the next key
C16_Witness ==
    /\ Waiting
    /\ feature = <<">", "error">>
    /\ current_index > 0
    /\ current_page > 0

====
